---------------------------- MODULE Spec2Model ----------------------------
(***************************************************************************)
(* A model of src/parser.ts, the LanguageModelParser that compiles a YAML *)
(* training corpus into a LUIS model.                                      *)
(*                                                                         *)
(* A JavaScript string is a sequence of one-character strings, so that     *)
(* indexOf, replace, split, slice, trim and the regular expressions work   *)
(* on characters as they do in the source.  "go to" is written             *)
(* <<"g","o"," ","t","o">>.                                                *)
(***************************************************************************)
EXTENDS Integers, Sequences, FiniteSets

VARIABLES
    tokIn, tokOut,              \* tokenize: the text given, the tokens returned
    buSentence, buCulture, buOut, \* buildUtterance: sentence, this.culture, result
    exTemplate, exLists, exOut, \* expandVariables: sentence, variables, result
    entitiesMap, regLog,        \* registerEntity: the Map, the types registered so far
    doc, culture, ret,          \* LanguageModelParser: this.doc, this.culture, last return
    lastFiles, calls            \* the files of the last parse call, the number of calls

vars == <<tokIn, tokOut, buSentence, buCulture, buOut, exTemplate, exLists, exOut,
          entitiesMap, regLog, doc, culture, ret, lastFiles, calls>>

tokVars == <<tokIn, tokOut>>
buVars == <<buSentence, buCulture, buOut>>
exVars == <<exTemplate, exLists, exOut>>
regVars == <<entitiesMap, regLog>>
parserVars == <<doc, culture, ret, lastFiles, calls>>

-----------------------------------------------------------------------------
(* Characters *)

UpperSeq == <<"A","B","C","D","E","F","G","H","I","J","K","L","M",
              "N","O","P","Q","R","S","T","U","V","W","X","Y","Z">>
LowerSeq == <<"a","b","c","d","e","f","g","h","i","j","k","l","m",
              "n","o","p","q","r","s","t","u","v","w","x","y","z">>
Digits == {"0","1","2","3","4","5","6","7","8","9"}
\* Some letters of the range À-ſ, upper and lower case.
AccentedUpperSeq == <<"É", "Ñ">>
AccentedLowerSeq == <<"é", "ñ">>

Range(f) == {f[i] : i \in DOMAIN f}

\* \s of the regular expressions, over the characters of this model.
IsSpace(c) == c \in {" "}

\* [\wÀ-ſ]: the characters the first replace of tokenize leaves alone.
IsWordChar(c) ==
    \/ c \in Range(UpperSeq) \cup Range(LowerSeq) \cup Digits \cup {"_"}
    \/ c \in Range(AccentedUpperSeq) \cup Range(AccentedLowerSeq)

-----------------------------------------------------------------------------
(* String helpers: the JavaScript string methods the parser calls *)

RECURSIVE Flatten(_)
Flatten(ss) == IF ss = <<>> THEN <<>> ELSE Head(ss) \o Flatten(Tail(ss))

\* s.indexOf(search), 1-based; 0 when absent (JavaScript: -1).
IndexOf(s, search) ==
    LET n == Len(search)
        hits == {i \in 1..(Len(s) - n + 1) : SubSeq(s, i, i + n - 1) = search}
    IN  IF hits = {} THEN 0 ELSE CHOOSE i \in hits : \A j \in hits : i <= j

StartsWith(s, prefix) ==
    Len(s) >= Len(prefix) /\ SubSeq(s, 1, Len(prefix)) = prefix

\* s.replace(search, value) with a string pattern: the FIRST occurrence only.
\* (No value of this model holds a "$$", "$&" or other replacement pattern.)
ReplaceFirst(s, search, value) ==
    LET i == IndexOf(s, search)
    IN  IF i = 0 THEN s
        ELSE SubSeq(s, 1, i - 1) \o value \o SubSeq(s, i + Len(search), Len(s))

\* s.replace(/\s\s+/g, ' '): every run of two or more spaces becomes one ' '.
RECURSIVE CollapseSpaces(_)
CollapseSpaces(s) ==
    IF s = <<>> THEN <<>>
    ELSE IF IsSpace(s[1])
    THEN LET ends == {i \in 1..Len(s) : \A j \in 1..i : IsSpace(s[j])}
             n == CHOOSE i \in ends : \A j \in ends : j <= i
         IN  (IF n >= 2 THEN <<" ">> ELSE <<s[1]>>)
                 \o CollapseSpaces(SubSeq(s, n + 1, Len(s)))
    ELSE <<s[1]>> \o CollapseSpaces(Tail(s))

\* s.trim()
Trim(s) ==
    LET keep == {i \in 1..Len(s) : ~IsSpace(s[i])}
    IN  IF keep = {} THEN <<>>
        ELSE LET lo == CHOOSE i \in keep : \A j \in keep : i <= j
                 hi == CHOOSE i \in keep : \A j \in keep : j <= i
             IN  SubSeq(s, lo, hi)

\* s.split(' '): one piece more than there are spaces; ''.split(' ') is [''].
RECURSIVE SplitOnSpace(_)
SplitOnSpace(s) ==
    LET i == IndexOf(s, <<" ">>)
    IN  IF i = 0 THEN <<s>>
        ELSE <<SubSeq(s, 1, i - 1)>> \o SplitOnSpace(SubSeq(s, i + 1, Len(s)))

\* s.slice(from, -1) with a 0-based from: drops the first `from` characters
\* and the last one.
SliceDropLast(s, from) == SubSeq(s, from + 1, Len(s) - 1)

-----------------------------------------------------------------------------
(* tokenize, wordCount, normalizeSentence *)

\* .replace(/[^\wÀ-ſ]/g, capture => ` ${capture} `)
PadNonWord(s) ==
    Flatten([i \in 1..Len(s) |->
                IF IsWordChar(s[i]) THEN <<s[i]>> ELSE <<" ", s[i], " ">>])

\* .replace(/_/g, capture => ` ${capture} `)
PadUnderscore(s) ==
    Flatten([i \in 1..Len(s) |->
                IF s[i] = "_" THEN <<" ", s[i], " ">> ELSE <<s[i]>>])

\* .replace(' º ', 'º').replace(' ª ', 'ª'): string patterns, first occurrence.
JoinSigns(s) ==
    ReplaceFirst(ReplaceFirst(s, <<" ", "º", " ">>, <<"º">>),
                 <<" ", "ª", " ">>, <<"ª">>)

tokenize(sentence) ==
    SplitOnSpace(Trim(CollapseSpaces(JoinSigns(PadUnderscore(PadNonWord(sentence))))))

wordCount(sentence) == Len(tokenize(sentence))

ToLowerAscii(c) ==
    IF \E i \in 1..Len(UpperSeq) : UpperSeq[i] = c
    THEN LowerSeq[CHOOSE i \in 1..Len(UpperSeq) : UpperSeq[i] = c]
    ELSE c

\* toLocaleLowerCase: the ASCII letters and the accented ones.
ToLowerLocale(c) ==
    IF \E i \in 1..Len(AccentedUpperSeq) : AccentedUpperSeq[i] = c
    THEN AccentedLowerSeq[CHOOSE i \in 1..Len(AccentedUpperSeq) : AccentedUpperSeq[i] = c]
    ELSE ToLowerAscii(c)

normalizeSentence(sentence, cult) ==
    LET normalized == Trim(CollapseSpaces(sentence))
    IN  IF cult = "en-us"
        THEN [i \in 1..Len(normalized) |-> ToLowerAscii(normalized[i])]
        ELSE [i \in 1..Len(normalized) |-> ToLowerLocale(normalized[i])]

-----------------------------------------------------------------------------
(* extractEntities and buildUtterance *)

\* The least index i >= from with s[i] = c; 0 when there is none.
FirstIndexFrom(s, c, from) ==
    LET hits == {i \in from..Len(s) : s[i] = c}
    IN  IF hits = {} THEN 0 ELSE CHOOSE i \in hits : \A j \in hits : i <= j

\* A match of \[(.+?):(.+?)\] that starts at the "[" at index i: the lazy
\* value ends before the first ":" that leaves it a character, the lazy type
\* before the first "]" that leaves it a character.
MatchAt(s, i) ==
    LET colon == FirstIndexFrom(s, ":", i + 2)
        close == IF colon = 0 THEN 0 ELSE FirstIndexFrom(s, "]", colon + 2)
    IN  [start |-> IF close = 0 THEN 0 ELSE i, colon |-> colon, close |-> close]

\* The leftmost match at or after index from; start = 0 when there is none.
NextMatch(s, from) ==
    LET starts == {i \in from..Len(s) : s[i] = "[" /\ MatchAt(s, i).start # 0}
    IN  IF starts = {} THEN [start |-> 0, colon |-> 0, close |-> 0]
        ELSE MatchAt(s, CHOOSE i \in starts : \A j \in starts : i <= j)

\* regexEntity.exec in a loop: the matches left to right, none overlapping;
\* m is the match the last exec returned.
RECURSIVE ExecFrom(_, _)
ExecFrom(s, m) ==
    IF m.start = 0 THEN <<>>
    ELSE <<[entityValue |-> SubSeq(s, m.start + 1, m.colon - 1),
            entityType |-> SubSeq(s, m.colon + 1, m.close - 1)]>>
         \o ExecFrom(s, NextMatch(s, m.close + 1))

extractEntities(sentence) == ExecFrom(sentence, NextMatch(sentence, 1))

\* s.split(/(\[.+?:.+?\])/g): the text between the matches and, the group
\* capturing, the matches themselves; a match at either end leaves a ''.
\* m is the leftmost match at or after index from.
RECURSIVE SplitFrom(_, _, _)
SplitFrom(s, from, m) ==
    IF m.start = 0 THEN <<SubSeq(s, from, Len(s))>>
    ELSE <<SubSeq(s, from, m.start - 1), SubSeq(s, m.start, m.close)>>
         \o SplitFrom(s, m.close + 1, NextMatch(s, m.close + 1))

SplitByEntities(s) == SplitFrom(s, 1, NextMatch(s, 1))

\* The forEach over one part's extracted entities (lines 227-236): acc is
\* [parts, entities].
RECURSIVE AddEntities(_, _)
AddEntities(acc, extracted) ==
    IF extracted = <<>> THEN acc
    ELSE LET entity == Head(extracted)
             startPos == wordCount(acc.parts)
             parts2 == acc.parts \o entity.entityValue
             endPos == wordCount(parts2) - 1
         IN  AddEntities([parts |-> parts2,
                          entities |-> Append(acc.entities,
                                              [entity |-> entity.entityType,
                                               startPos |-> startPos,
                                               endPos |-> endPos])],
                         Tail(extracted))

\* The body of the forEach over the parts (lines 225-239) for one part and
\* the entities extracted from it.
AddPart(acc, part, extractedEntities) ==
    IF extractedEntities # <<>>
    THEN AddEntities(acc, extractedEntities)
    ELSE [acc EXCEPT !.parts = acc.parts \o part]

\* The forEach over the parts of the sentence (lines 224-240).
RECURSIVE WalkParts(_, _)
WalkParts(acc, ps) ==
    IF ps = <<>> THEN acc
    ELSE WalkParts(AddPart(acc, Head(ps), extractEntities(Head(ps))), Tail(ps))

\* The utterance of lines 242-246 from the parts and entities gathered.
UtteranceOf(acc, intent, cult) ==
    [text |-> normalizeSentence(acc.parts, cult),
     intent |-> intent,
     entities |-> acc.entities]

buildUtterance(sentence, intent, cult) ==
    UtteranceOf(WalkParts([parts |-> <<>>, entities |-> <<>>],
                          SplitByEntities(Trim(sentence))),
                intent, cult)

-----------------------------------------------------------------------------
(* registerEntity *)

\* The Map is the sequence of its entries in insertion order; an Entity is
\* [name, children], children = <<>> standing for an absent children field.
MapHas(map, key) == \E i \in 1..Len(map) : map[i].name = key

MapGet(map, key) == map[CHOOSE i \in 1..Len(map) : map[i].name = key]

\* Map.set: a key already there keeps its place.
MapSet(map, key, value) ==
    IF MapHas(map, key)
    THEN [i \in 1..Len(map) |-> IF map[i].name = key THEN value ELSE map[i]]
    ELSE Append(map, value)

SeqContains(seq, x) == \E i \in 1..Len(seq) : seq[i] = x

\* registerEntity without the indexOf test: a subtype pushed every time.
registerEntityEveryTime(entity, map) ==
    LET entityTypeFull == entity.entity
        pos == IndexOf(entityTypeFull, <<":", ":">>)
        entitySubtype == IF pos > 0
                         THEN SubSeq(entityTypeFull, pos + 2, Len(entityTypeFull))
                         ELSE <<>>
        entityType == IF pos > 0 THEN SubSeq(entityTypeFull, 1, pos - 1)
                      ELSE entityTypeFull
        luisEntity == IF MapHas(map, entityType) THEN MapGet(map, entityType)
                      ELSE [name |-> entityType, children |-> <<>>]
        updated == IF entitySubtype # <<>>
                   THEN [luisEntity EXCEPT !.children = Append(@, entitySubtype)]
                   ELSE luisEntity
    IN  MapSet(map, entityType, updated)

registerEntity(entity, map) ==
    LET entityTypeFull == entity.entity
        pos == IndexOf(entityTypeFull, <<":", ":">>)
        entitySubtype == IF pos > 0
                         THEN SubSeq(entityTypeFull, pos + 2, Len(entityTypeFull))
                         ELSE <<>>      \* undefined
        entityType == IF pos > 0 THEN SubSeq(entityTypeFull, 1, pos - 1)
                      ELSE entityTypeFull
        luisEntity == IF MapHas(map, entityType) THEN MapGet(map, entityType)
                      ELSE [name |-> entityType, children |-> <<>>]
        updated == IF entitySubtype # <<>>      \* '' and undefined are falsy
                      /\ ~SeqContains(luisEntity.children, entitySubtype)
                   THEN [luisEntity EXCEPT !.children = Append(@, entitySubtype)]
                   ELSE luisEntity
    IN  MapSet(map, entityType, updated)

-----------------------------------------------------------------------------
(* expandVariables *)

\* The Map of lists is the sequence of its [key, values] entries in insertion
\* order.  A Set of sentences is the sequence of its members in insertion
\* order, without repeats.

MaxExpandSteps == 64

\* Set.add: a member already there keeps its place.
SetAdd(set, x) == IF SeqContains(set, x) THEN set ELSE Append(set, x)

\* Set.delete
SetDelete(set, x) == SelectSeq(set, LAMBDA y : y # x)

\* '${' + key + '}'
Placeholder(key) == <<"$", "{">> \o key \o <<"}">>

\* variables.forEach((values, key) => values.forEach(value => ...)) as the
\* flat sequence of the (key, value) pairs it visits.
KeyValuePairs(variables) ==
    Flatten([i \in 1..Len(variables) |->
                [j \in 1..Len(variables[i].values) |->
                    [key |-> variables[i].key, value |-> variables[i].values[j]]]])

\* The body run for one sentence of the Set (lines 112-125) over the pairs
\* left: st is [set, deleted], deleted telling whether the entry being
\* visited was removed from the Set.
RECURSIVE VisitPairs(_, _, _)
VisitPairs(st, sentence, pairs) ==
    IF pairs = <<>> THEN st
    ELSE LET search == Placeholder(Head(pairs).key)
             newSentence == ReplaceFirst(sentence, search, Head(pairs).value)
             st2 == IF IndexOf(sentence, search) = 0 THEN st
                    ELSE IF newSentence # sentence
                    THEN [set |-> SetDelete(SetAdd(st.set, newSentence), sentence),
                          deleted |-> st.deleted \/ SeqContains(st.set, sentence)]
                    ELSE [st EXCEPT !.set = SetAdd(st.set, sentence)]
         IN  VisitPairs(st2, sentence, Tail(pairs))

\* expandedSentences.forEach: the Set is iterated live, in insertion order.
\* Members added during the iteration are visited, a member removed and added
\* again is visited again.  idx is the place of the member to visit; seen holds
\* the (set, idx) the loop was in before: being there again, it never ends.
RECURSIVE ExpandLoop(_, _, _, _, _)
ExpandLoop(set, idx, variables, seen, steps) ==
    IF idx > Len(set) THEN [diverged |-> FALSE, out |-> set]
    ELSE IF <<set, idx>> \in seen \/ steps >= MaxExpandSteps
    THEN [diverged |-> TRUE, out |-> set]
    ELSE LET st == VisitPairs([set |-> set, deleted |-> FALSE], set[idx],
                              KeyValuePairs(variables))
         IN  ExpandLoop(st.set, IF st.deleted THEN idx ELSE idx + 1, variables,
                        seen \cup {<<set, idx>>}, steps + 1)

\* diverged: the call never returns; otherwise out is Array.from(expandedSentences).
expandVariables(sentence, variables) ==
    ExpandLoop(<<sentence>>, 1, variables, {}, 0)

-----------------------------------------------------------------------------
(* parse *)

\* this.doc is the sequence of its [key, value] entries in property order
\* (no key of this model is an integer index).  A file is
\* [readable, content], content being what yaml.safeLoad returns for it.

MaxIntentNameLength == 50

LIST_PREFIX == <<"l","i","s","t",".">>
PHRASELIST == <<"p","h","r","a","s","e","l","i","s","t">>
BUILTIN == <<"b","u","i","l","t","i","n">>
\* 'list.${'.length
LIST_SLICE_FROM == 7

DocHas(d, key) == \E i \in 1..Len(d) : d[i].key = key

DocGet(d, key) == d[CHOOSE i \in 1..Len(d) : d[i].key = key].value

\* Object.assign(target, source): a key already there keeps its place and
\* takes the new value, a new key goes last.
RECURSIVE ObjectAssign(_, _)
ObjectAssign(target, source) ==
    IF source = <<>> THEN target
    ELSE LET e == Head(source)
             next == IF DocHas(target, e.key)
                     THEN [i \in 1..Len(target) |->
                              IF target[i].key = e.key THEN e ELSE target[i]]
                     ELSE Append(target, e)
         IN  ObjectAssign(next, Tail(source))

\* The files.forEach of lines 16-20: stops at the first file that cannot be
\* read or parsed, the files before it already merged.
RECURSIVE LoadFiles(_, _)
LoadFiles(d, files) ==
    IF files = <<>> THEN [doc |-> d, ok |-> TRUE]
    ELSE IF ~Head(files).readable THEN [doc |-> d, ok |-> FALSE]
    ELSE LoadFiles(ObjectAssign(d, Head(files).content), Tail(files))

Keys(d) == [i \in 1..Len(d) |-> d[i].key]

IsIntentKey(key) ==
    /\ ~StartsWith(key, LIST_PREFIX)
    /\ ~StartsWith(key, PHRASELIST)
    /\ ~StartsWith(key, BUILTIN)

\* The keys left by the three filters of lines 44-46.
IntentKeys(d) == SelectSeq(Keys(d), IsIntentKey)

\* The length test off by one: a name of exactly 50 characters rejected.
NameTooLongFromFifty(intentName) == Len(intentName) >= MaxIntentNameLength

NameTooLong(intentName) == Len(intentName) > MaxIntentNameLength

\* replacements (lines 55-62): a Map, so a key set twice keeps its place.
RECURSIVE Replacements(_, _)
Replacements(d, map) ==
    IF d = <<>> THEN map
    ELSE LET e == Head(d)
             key == SliceDropLast(e.key, LIST_SLICE_FROM)
             entry == [key |-> key, values |-> e.value]
             next == IF ~StartsWith(e.key, LIST_PREFIX) THEN map
                     ELSE IF \E i \in 1..Len(map) : map[i].key = key
                     THEN [i \in 1..Len(map) |->
                              IF map[i].key = key THEN entry ELSE map[i]]
                     ELSE Append(map, entry)
         IN  Replacements(Tail(d), next)

\* utterance.entities.forEach(entity => this.registerEntity(entity, entitiesMap))
RECURSIVE RegisterAll(_, _)
RegisterAll(entities, map) ==
    IF entities = <<>> THEN map
    ELSE RegisterAll(Tail(entities), registerEntity(Head(entities), map))

\* Lines 76-77 for one utterance.  acc is [entitiesMap, utterances, built,
\* registered, status]; utterances is a Set of objects, each utterance a new
\* object and so a new member.
AddUtterance(acc, utterance) ==
    [acc EXCEPT !.entitiesMap = RegisterAll(utterance.entities, @),
                !.utterances = Append(@, utterance),
                !.built = @ + 1,
                !.registered = @ + Len(utterance.entities)]

\* The forEach of lines 74-78 over the flattened sentences of one intent.
RECURSIVE BuildAll(_, _, _, _)
BuildAll(acc, sentences, intent, cult) ==
    IF sentences = <<>> THEN acc
    ELSE BuildAll(AddUtterance(acc, buildUtterance(Head(sentences), intent, cult)),
                  Tail(sentences), intent, cult)

\* sentences.map(sentence => this.expandVariables(sentence, replacements))
ExpandAll(sentences, replacements) ==
    [i \in 1..Len(sentences) |-> expandVariables(sentences[i], replacements)]

\* The intentNames.forEach of lines 68-79.  status is "ok", "diverged" (an
\* expandVariables call that never returns) or "reduce" (the TypeError of
\* reduce on an intent with no sentence).  IntentBody is the body for the
\* first of the intents left, expanded being its expanded sentences.
RECURSIVE IntentsLoop(_, _, _, _, _)
RECURSIVE IntentBody(_, _, _, _, _, _)
IntentsLoop(acc, intentNames, d, replacements, cult) ==
    IF intentNames = <<>> THEN acc
    ELSE IntentBody(acc, intentNames, d, replacements, cult,
                    ExpandAll(DocGet(d, Head(intentNames)), replacements))

IntentBody(acc, intentNames, d, replacements, cult, expanded) ==
    IF \E i \in 1..Len(expanded) : expanded[i].diverged
    THEN [acc EXCEPT !.status = "diverged"]
    ELSE IF expanded = <<>>
    THEN [acc EXCEPT !.status = "reduce"]
    ELSE IntentsLoop(BuildAll(acc,
                              Flatten([i \in 1..Len(expanded) |-> expanded[i].out]),
                              Head(intentNames), cult),
                     Tail(intentNames), d, replacements, cult)

\* array.join(sep) of strings
RECURSIVE Join(_, _)
Join(strs, sep) ==
    IF strs = <<>> THEN <<>>
    ELSE IF Len(strs) = 1 THEN strs[1]
    ELSE strs[1] \o sep \o Join(Tail(strs), sep)

\* value == null ? true : value, over "null", "true", "false"
DefaultTrue(flag) == IF flag = "null" THEN "true" ELSE flag

\* features (lines 81-96): the pairs of this.doc.phraselist.
Features(d) ==
    LET pairs == IF DocHas(d, PHRASELIST) THEN DocGet(d, PHRASELIST) ELSE <<>>
    IN  [i \in 1..Len(pairs) |->
            [activated |-> DefaultTrue(pairs[i].activated),
             mode |-> DefaultTrue(pairs[i].mode),
             name |-> pairs[i].name,
             words |-> Join([j \in 1..Len(pairs[i].words) |->
                                Join(tokenize(pairs[i].words[j]), <<" ">>)],
                            <<",">>)]]

\* What parse throws: no Model is returned.
Failure(err, built, registered) ==
    [kind |-> "error", error |-> err, built |-> built, registered |-> registered]

\* Lines 81-106: the Model returned once the loop over the intents is done.
\* (desc, which holds the time of the call, is left out.)
ModelOf(d, cult, intentNames, loop) ==
    [kind |-> "model",
     luis_schema_version |-> "1.3.0",
     name |-> "tef",
     culture |-> cult,
     intents |-> intentNames,     \* the name of each Intent
     entities |-> loop.entitiesMap,
     composites |-> <<>>,
     bing_entities |-> IF DocHas(d, BUILTIN) THEN DocGet(d, BUILTIN) ELSE <<>>,
     actions |-> <<>>,
     model_features |-> Features(d),
     regex_features |-> <<>>,
     utterances |-> loop.utterances,
     built |-> loop.built,
     registered |-> loop.registered]

\* The end of parse, loop being the outcome of the loop over the intents.
AfterLoop(d, cult, intentNames, loop) ==
    IF loop.status = "diverged"
    THEN [kind |-> "diverged", built |-> loop.built, registered |-> loop.registered]
    ELSE IF loop.status = "reduce"
    THEN Failure("TypeError", loop.built, loop.registered)
    ELSE ModelOf(d, cult, intentNames, loop)

\* Lines 41-106 on the merged document d.
ParseDoc(d, cult, intentNames) ==
    IF \E i \in 1..Len(intentNames) : NameTooLong(intentNames[i])
    THEN Failure("IntentNameTooLong", 0, 0)
    ELSE AfterLoop(d, cult, intentNames,
                   IntentsLoop([entitiesMap |-> <<>>, utterances |-> <<>>,
                                built |-> 0, registered |-> 0, status |-> "ok"],
                               intentNames, d, Replacements(d, <<>>), cult))

\* Lines 21-24 and on: loaded is what the reading of the files left.
AfterLoad(loaded, cult0, cult) ==
    IF ~loaded.ok
    THEN [doc |-> loaded.doc, culture |-> cult0,
          ret |-> Failure("NotAbleToParse", 0, 0)]
    ELSE [doc |-> loaded.doc, culture |-> cult,
          ret |-> ParseDoc(loaded.doc, cult, IntentKeys(loaded.doc))]

\* parse(files, culture) on an instance whose fields are d0 and cult0: the
\* fields after the call and what the call returns or throws.  built and
\* registered count the buildUtterance and registerEntity calls it made.
parse(d0, cult0, files, cult) == AfterLoad(LoadFiles(d0, files), cult0, cult)

-----------------------------------------------------------------------------
(* Inputs *)

MaxTextLen == 4
MaxPrefixLen == 3
MaxValueLen == 3
MaxRegistrations == 4
MaxTemplateParts == 3
MaxListLen == 2
MaxCalls == 2

\* The strings over an alphabet of at least lo and at most hi characters.
Strings(alphabet, lo, hi) == UNION {[1..n -> alphabet] : n \in lo..hi}

Cultures == {"en-us", "es-es"}

\* tokenize: every short text over a word letter, a digit, the space, the two
\* ordinal signs, a comma and the underscore, and the texts of the spec.
TokAlphabet == {"a", "5", " ", "º", "ª", ",", "_"}
TokExamples == {<<"a", ",", "b", ",", "c">>,
                <<"5", "º", " ", "a", "n", "d", " ", "6", "º">>,
                <<"1", "ª", " ", "y", " ", "2", "ª">>}
TokTexts == Strings(TokAlphabet, 0, MaxTextLen) \cup TokExamples

\* buildUtterance: a literal prefix, a tag [value:type], a suffix; and text
\* with brackets and colons in any order.
PrefixAlphabet == {"a", " ", "º"}
ValueAlphabet == {"a", " ", "º"}
TagTypes == {<<"n">>, <<"d", ":", ":", "w">>}
Suffixes == {<<>>, <<" ", "c", ".">>}
Tag(value, type) == <<"[">> \o value \o <<":">> \o type \o <<"]">>
TaggedSentences ==
    {prefix \o Tag(value, type) \o suffix :
        prefix \in Strings(PrefixAlphabet, 0, MaxPrefixLen),
        value \in Strings(ValueAlphabet, 1, MaxValueLen),
        type \in TagTypes, suffix \in Suffixes}
BuExamples ==
    {<<"g","o"," ","t","o"," ","[","B","u","r","g","o","s",":","c","i","t","y","]">>,
     <<"[","S","a","n","t","i","a","g","o"," ","B","e","r","n","a","b","e","u",":",
       "p","l","a","c","e","]"," ","i","s"," ","a"," ","s","t","a","d","i","u","m">>,
     <<"S","a","n","t","i","a","g","o"," ","B","e","r","n","a","b","e","u"," ",
       "w","e","n","t"," ","t","o"," ",
       "[","S","a","n","t","i","a","g","o"," ","B","e","r","n","a","b","e","u",":",
       "p","l","a","c","e","]",".">>,
     <<"5","º"," ","[","6","º",":","n","]">>,
     <<"[","a",":","n","]"," ","[","a",":","n","]">>}
Sentences ==
    TaggedSentences \cup BuExamples \cup Strings({"[", ":", "]", "a", " "}, 0, MaxTextLen)

\* registerEntity: plain types, parent::child types, and the edge shapes.
EntityTypes ==
    {<<"d">>, <<"p">>, <<"D">>,
     <<"d", ":", ":", "w">>, <<"d", ":", ":", "m">>, <<"p", ":", ":", "w">>,
     <<"d", ":", ":">>, <<":", ":", "w">>, <<"d", ":", ":", "w", ":", ":", "m">>,
     <<"d", ":", "w">>}

\* expandVariables: a template of up to MaxTemplateParts pieces, among them
\* the placeholders of the two lists and one of no list; the lists hold up to
\* MaxListLen values, some of them placeholders themselves.
KeyC == <<"c">>
KeyD == <<"d">>
KeyZ == <<"z">>
TemplatePieces == {<<"a">>, <<" ">>, Placeholder(KeyC), Placeholder(KeyD), Placeholder(KeyZ)}
Templates ==
    {Flatten(ps) : ps \in Strings(TemplatePieces, 0, MaxTemplateParts)}
ListValues == {<<"x">>, <<"y">>, <<"x", "y">>, Placeholder(KeyC), Placeholder(KeyD)}
ValueLists == Strings(ListValues, 0, MaxListLen)
ListMaps ==
    {<<[key |-> KeyC, values |-> vc], [key |-> KeyD, values |-> vd]>> :
        vc \in ValueLists, vd \in ValueLists}

\* parse: the files a call may be given.
LongName == [i \in 1..(MaxIntentNameLength + 1) |-> "n"]
FullName == [i \in 1..MaxIntentNameLength |-> "m"]
Greet == <<"g", "r", "e", "e", "t">>
GoBurgos == <<"g", "o", " ", "[", "B", ":", "c", "]">>

\* greet, with one sentence listed twice and one that normalizes to it
FileGreet ==
    [readable |-> TRUE,
     content |-> <<[key |-> Greet,
                    value |-> <<GoBurgos, GoBurgos,
                                <<"G", "o", " ", " ", "[", "B", ":", "c", "]">>>>]>>]
\* greet again, with another sentence
FileGreetAgain ==
    [readable |-> TRUE,
     content |-> <<[key |-> Greet, value |-> <<<<"h", "i", " ", "É">>>>]>>]
\* a list, and an intent that uses it and a list that does not exist
FileList ==
    [readable |-> TRUE,
     content |-> <<[key |-> LIST_PREFIX \o Placeholder(KeyC),
                    value |-> <<<<"x">>, <<"y">>>>],
                   [key |-> <<"a", "s", "k">>,
                    value |-> <<<<"a", "t", " ">> \o Placeholder(KeyC),
                                <<"s", "e", "e", " ">> \o Placeholder(KeyZ)>>]>>]
\* an intent name of 51 characters
FileLong ==
    [readable |-> TRUE,
     content |-> <<[key |-> LongName, value |-> <<<<"h", "i">>>>]>>]
\* an intent name of 50 characters, a phraselist, builtin entities
FileFull ==
    [readable |-> TRUE,
     content |-> <<[key |-> FullName,
                    value |-> <<<<"[", "a", " ", "b", ":", "d", ":", ":", "w", "]", " ",
                                  "[", "c", ":", "d", ":", ":", "m", "]">>>>],
                   [key |-> PHRASELIST,
                    value |-> <<[name |-> <<"p">>, activated |-> "null",
                                 mode |-> "false",
                                 words |-> <<<<"a", ",", "b">>, <<"5", "º">>>>]>>],
                   [key |-> BUILTIN, value |-> <<<<"d", "t">>>>]>>]
\* a file that cannot be read
FileBad == [readable |-> FALSE, content |-> <<>>]

Files == {FileGreet, FileGreetAgain, FileList, FileLong, FileFull, FileBad}

\* one file, or two different files in either order
FileLists ==
    {<<f>> : f \in Files} \cup {fg \in Files \X Files : fg[1] # fg[2]}

-----------------------------------------------------------------------------
(* The specifications *)

NotCalled == [kind |-> "none"]

TokIdle == tokIn = <<>> /\ tokOut = <<>>
BuIdle == buSentence = <<>> /\ buCulture = "en-us" /\ buOut = NotCalled
ExIdle == exTemplate = <<>> /\ exLists = <<>> /\ exOut = NotCalled
RegIdle == entitiesMap = <<>> /\ regLog = <<>>
\* a new LanguageModelParser: doc = {}, culture not set
ParserIdle ==
    /\ doc = <<>>
    /\ culture = "undefined"
    /\ ret = NotCalled
    /\ lastFiles = <<>>
    /\ calls = 0

\* tokenize applied to one text (a token sequence is never empty).
TokInit == tokIn \in TokTexts /\ tokOut = <<>> /\ BuIdle /\ ExIdle /\ RegIdle /\ ParserIdle

Tokenize ==
    /\ tokOut = <<>>
    /\ tokOut' = tokenize(tokIn)
    /\ UNCHANGED <<tokIn, buVars, exVars, regVars, parserVars>>

TokenizeSpec == TokInit /\ [][Tokenize]_vars

\* buildUtterance applied to one sentence.
BuInit ==
    /\ buSentence \in Sentences
    /\ buCulture \in Cultures
    /\ buOut = NotCalled
    /\ TokIdle /\ ExIdle /\ RegIdle /\ ParserIdle

BuildUtterance ==
    /\ buOut = NotCalled
    /\ buOut' = [kind |-> "utterance",
                 value |-> buildUtterance(buSentence, Greet, buCulture)]
    /\ UNCHANGED <<buSentence, buCulture, tokVars, exVars, regVars, parserVars>>

UtteranceSpec == BuInit /\ [][BuildUtterance]_vars

\* expandVariables applied to one template and one Map of lists.
ExInit ==
    /\ exTemplate \in Templates
    /\ exLists \in ListMaps
    /\ exOut = NotCalled
    /\ TokIdle /\ BuIdle /\ RegIdle /\ ParserIdle

ExpandVariables ==
    /\ exOut = NotCalled
    /\ exOut' = [kind |-> "result", value |-> expandVariables(exTemplate, exLists)]
    /\ UNCHANGED <<exTemplate, exLists, tokVars, buVars, regVars, parserVars>>

ExpandSpec == ExInit /\ [][ExpandVariables]_vars

\* registerEntity called again and again on the Map of one run.
RegInit == RegIdle /\ TokIdle /\ BuIdle /\ ExIdle /\ ParserIdle

RegisterEntity(type) ==
    /\ Len(regLog) < MaxRegistrations
    /\ entitiesMap' = registerEntity([entity |-> type, startPos |-> 0, endPos |-> 0],
                                     entitiesMap)
    /\ regLog' = Append(regLog, type)
    /\ UNCHANGED <<tokVars, buVars, exVars, parserVars>>

RegNext == \E type \in EntityTypes : RegisterEntity(type)

RegistrySpec == RegInit /\ [][RegNext]_vars

\* parse called again and again on one LanguageModelParser.
Init == ParserIdle /\ TokIdle /\ BuIdle /\ ExIdle /\ RegIdle

\* The fields of the instance and the value returned, once parse is over.
Returned(r) ==
    /\ doc' = r.doc
    /\ culture' = r.culture
    /\ ret' = r.ret

Parse(files, cult) ==
    /\ calls < MaxCalls
    /\ ret.kind # "diverged"
    /\ Returned(parse(doc, culture, files, cult))
    /\ lastFiles' = files
    /\ calls' = calls + 1
    /\ UNCHANGED <<tokVars, buVars, exVars, regVars>>

Next == \E files \in FileLists, cult \in Cultures : Parse(files, cult)

Spec == Init /\ [][Next]_vars

-----------------------------------------------------------------------------
(* Properties *)

IsSign(c) == c \in {"º", "ª"}

IsLetterOrDigit(c) == IsWordChar(c) /\ c # "_"

\* The number of words tokenize finds in a text standing alone ('' is no word).
NumTokens(text) == Len(SelectSeq(tokenize(text), LAMBDA t : t # <<>>))

\* The sentence given to buildUtterance, as the split of line 223 sees it.
BuParts == SplitByEntities(Trim(buSentence))

BuFirstValue == extractEntities(BuParts[2])[1].entityValue

BuFirstSpan == buOut.value.entities[1]

\* C1: for every sentence that begins with a tag [value:type], the span of
\* that tag has startPos = 0 and endPos = (number of tokens of value) - 1.
C1_LeadingTagStartsAtZero ==
    (buOut.kind = "utterance" /\ Len(BuParts) >= 2 /\ BuParts[1] = <<>>)
        => /\ BuFirstSpan.startPos = 0
           /\ BuFirstSpan.endPos = NumTokens(BuFirstValue) - 1

\* C5: for every sentence whose first tag [value:type] follows literal text
\* of k >= 1 tokens that ends in whitespace, the span of that tag has
\* startPos = k and endPos = k + (number of tokens of value) - 1.
C5_SpanAfterLiteralText ==
    (/\ buOut.kind = "utterance"
     /\ Len(BuParts) >= 2
     /\ BuParts[1] # <<>>
     /\ IsSpace(BuParts[1][Len(BuParts[1])]))
        => LET k == NumTokens(BuParts[1])
           IN  /\ k >= 1
               /\ BuFirstSpan.startPos = k
               /\ BuFirstSpan.endPos = k + NumTokens(BuFirstValue) - 1

\* The place, among the characters of the tokens written one after another,
\* of the character at index i of the text (tokenize moves no character and
\* drops only spaces).
PlaceInTokens(text, i) == Cardinality({j \in 1..i : ~IsSpace(text[j])})

\* The places at which a token starts.
TokenStarts(tokens) ==
    {1 + Len(Flatten(SubSeq(tokens, 1, j - 1))) : j \in 1..Len(tokens)}

\* C8: for every text, every º or ª that directly follows a letter or a digit
\* stays in the token of that letter or digit: it does not start a token of
\* its own; and "5º and 6º" has 3 words.
C8_EverySignStaysAttached ==
    tokOut # <<>>
        => /\ \A i \in 2..Len(tokIn) :
                (IsSign(tokIn[i]) /\ IsLetterOrDigit(tokIn[i - 1]))
                    => PlaceInTokens(tokIn, i) \notin TokenStarts(tokOut)
           /\ tokIn = <<"5", "º", " ", "a", "n", "d", " ", "6", "º">>
                    => Len(tokOut) = 3

\* The text of a full type before its first "::" (all of it when it has none).
ParentName(type) ==
    IF IndexOf(type, <<":", ":">>) = 0 THEN type
    ELSE SubSeq(type, 1, IndexOf(type, <<":", ":">>) - 1)

\* The text after the first "::"; empty when there is no "::" or nothing after it.
SubtypeName(type) ==
    IF IndexOf(type, <<":", ":">>) = 0 THEN <<>>
    ELSE SubSeq(type, IndexOf(type, <<":", ":">>) + 2, Len(type))

\* The distinct members of a sequence in the order they first occur.
FirstOccurrences(seq) ==
    SelectSeq([i \in 1..Len(seq) |->
                  IF \E j \in 1..(i - 1) : seq[j] = seq[i] THEN <<"repeat">> ELSE <<"first", seq[i]>>],
              LAMBDA e : e[1] = "first")

DistinctInOrder(seq) ==
    LET firsts == FirstOccurrences(seq)
    IN  [i \in 1..Len(firsts) |-> firsts[i][2]]

ParentsOf(log) == DistinctInOrder([i \in 1..Len(log) |-> ParentName(log[i])])

SubtypesOf(log, parent) ==
    DistinctInOrder(
        LET under == SelectSeq(log, LAMBDA t : ParentName(t) = parent /\ SubtypeName(t) # <<>>)
        IN  [i \in 1..Len(under) |-> SubtypeName(under[i])])

DateWeekday == <<"d", ":", ":", "w">>
DateMonth == <<"d", ":", ":", "m">>

\* C7: after any sequence of registerEntity calls the registry holds exactly
\* one Entity per distinct parent name, in order of first registration, and
\* the children of each are the distinct subtypes registered under it, in
\* order of first registration; d::w, d::m, d::w gives {d, [w, m]}.
C7_RegistryOnePerParent ==
    /\ LET parents == ParentsOf(regLog)
       IN  entitiesMap = [i \in 1..Len(parents) |->
                             [name |-> parents[i],
                              children |-> SubtypesOf(regLog, parents[i])]]
    /\ regLog = <<DateWeekday, DateMonth, DateWeekday>>
           => entitiesMap = <<[name |-> <<"d">>, children |-> <<<<"w">>, <<"m">>>>]>>

\* Three registrations under one parent, one of them a repeat.
C7_Witness ==
    /\ regLog = <<DateWeekday, DateMonth, DateWeekday>>
    /\ Len(entitiesMap) = 1
    /\ Len(entitiesMap[1].children) = 2

\* The keys of the placeholders ${key} written in a sentence.
PlaceholderKeysIn(sentence) ==
    {SubSeq(sentence, i + 2, j - 1) :
        <<i, j>> \in {p \in (1..Len(sentence)) \X (1..Len(sentence)) :
                        /\ p[1] + 2 <= p[2]
                        /\ sentence[p[1]] = "$"
                        /\ sentence[p[1] + 1] = "{"
                        /\ sentence[p[2]] = "}"
                        /\ \A m \in (p[1] + 2)..(p[2] - 1) : sentence[m] # "}"}}

\* The names of the lists of a document and of a Map of lists.
ListKeysOfDoc(d) == {e.key : e \in Range(Replacements(d, <<>>))}

ListKeysOfMap(variables) == {e.key : e \in Range(variables)}

SentencesOfDoc(d) ==
    UNION {Range(DocGet(d, key)) : key \in Range(IntentKeys(d))}

\* Some sentence template of the document names a list that does not exist.
HasUnresolvedReference(d) ==
    \E s \in SentencesOfDoc(d) : PlaceholderKeysIn(s) \ ListKeysOfDoc(d) # {}

\* The call read its files: the document it worked on is this.doc.
Loaded == calls >= 1 /\ ~(ret.kind = "error" /\ ret.error = "NotAbleToParse")

\* C2: in the Model parse returns, no two entries of utterances have the same
\* text, intent and entity spans.
C2_NoDuplicateUtterances ==
    ret.kind = "model"
        => \A i, j \in 1..Len(ret.utterances) :
               i # j => ret.utterances[i] # ret.utterances[j]

\* C3: when a sentence template of the document names a list that does not
\* exist, parse fails and returns no Model, and no utterance that still holds
\* the placeholder is emitted.
C3_UnresolvedReferenceAborts ==
    /\ (Loaded /\ HasUnresolvedReference(doc)) => ret.kind = "error"
    /\ ret.kind = "model"
           => \A i \in 1..Len(ret.utterances) :
                  PlaceholderKeysIn(ret.utterances[i].text) = {}

\* C6: parse rejects every document with an intent key of more than 50
\* characters, and does so before it builds an utterance or registers an
\* entity; it rejects no document for the length of its names when every
\* intent key has at most 50 characters.  (The document is the one parse
\* works on: this.doc once the files of the call are merged into it.)
C6_LongIntentNameRejectedFirst ==
    Loaded =>
        IF \E i \in 1..Len(IntentKeys(doc)) : Len(IntentKeys(doc)[i]) > MaxIntentNameLength
        THEN /\ ret.kind = "error"
             /\ ret.error = "IntentNameTooLong"
             /\ ret.built = 0
             /\ ret.registered = 0
        ELSE ~(ret.kind = "error" /\ ret.error = "IntentNameTooLong")

\* A call rejected for a 51-character name, on a document that also holds
\* sentences to build.
C6_Witness ==
    /\ ret.kind = "error"
    /\ ret.error = "IntentNameTooLong"
    /\ DocHas(doc, LongName)
    /\ DocHas(doc, Greet)

\* C9: every parse call returns what a new LanguageModelParser returns for
\* the files and the culture of that call, whatever the instance was given
\* or answered before.
C9_ParseIsPureFunctionOfItsFiles ==
    calls >= 1 => ret = parse(<<>>, "undefined", lastFiles, culture).ret

\* The keys of the lists a template refers to.
ReferencedLists(template, variables) ==
    {i \in 1..Len(variables) : IndexOf(template, Placeholder(variables[i].key)) # 0}

RECURSIVE Product(_, _)
Product(sizes, indices) ==
    IF indices = {} THEN 1
    ELSE LET i == CHOOSE x \in indices : TRUE
         IN  sizes[i] * Product(sizes, indices \ {i})

PairwiseDistinct(seq) == \A i, j \in 1..Len(seq) : i # j => seq[i] # seq[j]

PlaceholderFree(value) == IndexOf(value, <<"$", "{">>) = 0

\* C4: for every template whose k distinct placeholders refer to lists of
\* sizes n1..nk (each at least 1) with pairwise distinct, placeholder-free
\* values, however often each placeholder occurs, expandVariables returns
\* exactly n1*...*nk sentences and none of them holds one of those
\* placeholders.
C4_CrossProductSize ==
    (/\ exOut.kind = "result"
     /\ \A i \in ReferencedLists(exTemplate, exLists) :
            /\ exLists[i].values # <<>>
            /\ PairwiseDistinct(exLists[i].values)
            /\ \A v \in Range(exLists[i].values) : PlaceholderFree(v))
        => /\ ~exOut.value.diverged
           /\ Len(exOut.value.out) =
                  Product([i \in 1..Len(exLists) |-> Len(exLists[i].values)],
                          ReferencedLists(exTemplate, exLists))
           /\ \A s \in Range(exOut.value.out) :
                  \A i \in ReferencedLists(exTemplate, exLists) :
                      IndexOf(s, Placeholder(exLists[i].key)) = 0

\* C10: for every template and every Map of lists, expandVariables returns,
\* no sentence of its result holds a placeholder of a list that exists, and a
\* template without placeholders expands to itself alone.
C10_ExpansionReachesFixedPoint ==
    exOut.kind = "result"
        => /\ ~exOut.value.diverged
           /\ \A s \in Range(exOut.value.out) :
                  PlaceholderKeysIn(s) \cap ListKeysOfMap(exLists) = {}
           /\ PlaceholderKeysIn(exTemplate) = {}
                  => exOut.value.out = <<exTemplate>>

=============================================================================
